---- MODULE Spec2Model ----
(***************************************************************************)
(* Feedback-loop swarm of fg_analysis_feedback_loop.py: six agents, each   *)
(* bound to one tool function that rewrites the shared context variables,  *)
(* the hand-offs registered between them, and the swarm chat that runs one  *)
(* agent at a time until control reverts to the user or max_rounds is      *)
(* exhausted.                                                               *)
(***************************************************************************)
EXTENDS Integers, Sequences, FiniteSets, TLC

VARIABLES
    ctx,        \* the swarm's context variables (shared_context), a dict
    active,     \* the agent whose turn it is; "user" once control is back
    rounds,     \* tool invocations made so far
    max_rounds, \* the max_rounds argument of initiate_swarm_chat
    files,      \* which of data/transcripts.md, data/objectives.md exist
    last,       \* history: the latest tool invocation, with the arguments
                \* it was given when it returned a result
    loopEdges,  \* history: hand-offs revision_agent -> review_agent so far
    needHist,   \* history: iteration_needed of every committed feedback
    failed,     \* history: the agent whose tool invocation raised last
    turns,      \* history: how often each agent was given the turn
    returned    \* history: how many tool calls of each agent returned a result

vars == <<ctx, active, rounds, max_rounds, files, last, loopEdges, needHist, failed,
          turns, returned>>

----------------------------------------------------------------------------
(* Bounds of the model *)

\* max_iterations ranges over 1..MaxIterationsBound (the module sets 3)
MaxIterationsBound == 3

\* the round limit the module passes to initiate_swarm_chat
MaxRounds == 30

----------------------------------------------------------------------------
(* Python values *)

\* a JSON string argument produced by the LLM, or null
Str(s) == [type |-> "str", v |-> s]
Null == [type |-> "null"]
IsStr(a) == a.type = "str"

\* the empty dict {}
EmptyDict == <<>>

\* d[k] = v
Put(d, k, v) == [x \in DOMAIN d \cup {k} |-> IF x = k THEN v ELSE d[x]]

\* d.update(e)
Update(d, e) == [x \in DOMAIN d \cup DOMAIN e |-> IF x \in DOMAIN e THEN e[x] ELSE d[x]]

\* d.get(k): None when the key is missing, modelled as falsy FALSE
HasKey(d, k) == k \in DOMAIN d

----------------------------------------------------------------------------
(* Inputs the LLM and the environment can supply *)

TitleArgs == {Str("t1"), Str("t2"), Null}
ContentArgs == {Str("c1"), Null}
ChangesArgs == {[some |-> FALSE], [some |-> TRUE, val |-> <<"chg1">>]}
FeedbackItem1 == [feedback |-> "f1", severity |-> "major", recommendation |-> "r1"]
ItemsArgs == {<<>>, <<FeedbackItem1>>}
AssessmentArgs == {Str("oa1"), Null}
IssuesArgs == {<<"p1">>}

----------------------------------------------------------------------------
(* DocumentStage *)

ANALYSIS == "analysis"
REVIEW == "review"
REVISION == "revision"
FINAL == "final"
DocumentStage == {ANALYSIS, REVIEW, REVISION, FINAL}

\* the module-level shared_context, with max_iterations as a parameter
shared_context(maxIter) ==
    [loop_started |-> FALSE,
     current_iteration |-> 0,
     max_iterations |-> maxIter,
     iteration_needed |-> TRUE,
     current_stage |-> ANALYSIS,
     focus_group_transcripts |-> "",
     focus_group_objectives |-> "",
     analysis_draft |-> EmptyDict,
     feedback_collection |-> EmptyDict,
     revised_analysis |-> EmptyDict,
     final_report |-> EmptyDict,
     has_error |-> FALSE,
     error_message |-> "",
     error_stage |-> ""]

----------------------------------------------------------------------------
(* Tool results: a SwarmResult, or the exception the function raised *)

NoAgent == "none"
SwarmResult(cv, agent) == [ok |-> TRUE, context_variables |-> cv, agent |-> agent]
Raised(cv) == [ok |-> FALSE, context_variables |-> cv, agent |-> NoAgent]

----------------------------------------------------------------------------
(* The tool functions *)

\* read_data that goes on with empty text when a file is missing
read_data_ignoresMissing(cv, f) ==
    LET c1 == Put(cv, "fg_transcripts", IF f.transcripts THEN "transcripts" ELSE "")
        c2 == Put(c1, "fg_objectives", IF f.objectives THEN "objectives" ELSE "")
        c3 == Put(c2, "loop_started", TRUE)
        c4 == Put(c3, "current_stage", ANALYSIS)
        c5 == Put(c4, "current_iteration", 1)
    IN  SwarmResult(c5, NoAgent)

\* read_data that leaves current_iteration at its default
read_data_noIteration(cv, f) ==
    IF ~f.transcripts THEN Raised(cv)
    ELSE LET c1 == Put(cv, "fg_transcripts", "transcripts") IN
         IF ~f.objectives THEN Raised(c1)
         ELSE LET c2 == Put(c1, "fg_objectives", "objectives")
                  c3 == Put(c2, "loop_started", TRUE)
                  c4 == Put(c3, "current_stage", ANALYSIS)
              IN  SwarmResult(c4, NoAgent)

\* read_data that does not mark the loop as started
read_data_noLoopStarted(cv, f) ==
    IF ~f.transcripts THEN Raised(cv)
    ELSE LET c1 == Put(cv, "fg_transcripts", "transcripts") IN
         IF ~f.objectives THEN Raised(c1)
         ELSE LET c2 == Put(c1, "fg_objectives", "objectives")
                  c4 == Put(c2, "current_stage", ANALYSIS)
                  c5 == Put(c4, "current_iteration", 1)
              IN  SwarmResult(c5, NoAgent)

\* read_data: both files are opened before any loop variable is written
read_data(cv, f) ==
    IF ~f.transcripts THEN Raised(cv)
    ELSE LET c1 == Put(cv, "fg_transcripts", "transcripts") IN
         IF ~f.objectives THEN Raised(c1)
         ELSE LET c2 == Put(c1, "fg_objectives", "objectives")
                  c3 == Put(c2, "loop_started", TRUE)
                  c4 == Put(c3, "current_stage", ANALYSIS)
                  c5 == Put(c4, "current_iteration", 1)
              IN  SwarmResult(c5, NoAgent)

\* AnalysisDraft(title, content).model_dump(); both fields are required str
AnalysisDraft(title, content) == [title |-> title.v, content |-> content.v]

submit_analysis_draft(title, content, cv) ==
    IF ~(IsStr(title) /\ IsStr(content)) THEN Raised(cv)
    ELSE LET c1 == Put(cv, "analysis_draft", AnalysisDraft(title, content))
             c2 == Put(c1, "current_stage", REVIEW)
         IN  SwarmResult(c2, NoAgent)

\* FeedbackCollection(...).model_dump()
FeedbackCollection(items, overall_assessment, priority_issues, iteration_needed) ==
    [items |-> items,
     overall_assessment |-> overall_assessment.v,
     priority_issues |-> priority_issues,
     iteration_needed |-> iteration_needed]

submit_feedback(items, overall_assessment, priority_issues, iteration_needed, cv) ==
    IF ~IsStr(overall_assessment) THEN Raised(cv)
    ELSE LET feedback == FeedbackCollection(items, overall_assessment,
                                            priority_issues, iteration_needed)
             c1 == Put(cv, "feedback_collection", feedback)
             c2 == Put(c1, "iteration_needed", feedback.iteration_needed)
             c3 == Put(c2, "current_stage", REVISION)
         IN  SwarmResult(c3, NoAgent)

\* RevisedAnalysis(...).model_dump(); changes_made is Optional
RevisedAnalysis(title, content, changes_made) ==
    [title |-> title.v, content |-> content.v, changes_made |-> changes_made]

\* the revision decision, parameterised for the variants below:
\* again(c) is the loop guard, draft(r, c) the draft kept for the next
\* review, done the stage written when the loop is left
RevisionDecision(title, content, changes_made, cv, again(_), draft(_, _), done) ==
    IF ~(IsStr(title) /\ IsStr(content)) THEN Raised(cv)
    ELSE LET revised == RevisedAnalysis(title, content, changes_made)
             c1 == Put(cv, "revised_analysis", revised) IN
         IF again(c1)
         THEN LET c2 == Put(c1, "current_iteration", c1["current_iteration"] + 1)
                  c3 == Put(c2, "current_stage", REVIEW)
                  c4 == Put(c3, "analysis_draft", draft(revised, c3))
              IN  SwarmResult(c4, NoAgent)
         ELSE LET c2 == Put(c1, "current_stage", done)
              IN  SwarmResult(c2, NoAgent)

GuardAnd(c) == c["iteration_needed"] /\ c["current_iteration"] < c["max_iterations"]
GuardLeq(c) == c["iteration_needed"] /\ c["current_iteration"] <= c["max_iterations"]
GuardOr(c) == c["iteration_needed"] \/ c["current_iteration"] < c["max_iterations"]
GuardCountOnly(c) == c["current_iteration"] < c["max_iterations"]
GuardNeedOnly(c) == c["iteration_needed"]
DraftPair(r, c) == [title |-> r.title, content |-> r.content]
DraftKept(r, c) == c["analysis_draft"]

\* loop guard with <= in place of <
submit_revised_analysis_leq(title, content, changes_made, cv) ==
    RevisionDecision(title, content, changes_made, cv, GuardLeq, DraftPair, FINAL)

\* loop guard with or in place of and
submit_revised_analysis_or(title, content, changes_made, cv) ==
    RevisionDecision(title, content, changes_made, cv, GuardOr, DraftPair, FINAL)

\* loop guard that does not read iteration_needed
submit_revised_analysis_countOnly(title, content, changes_made, cv) ==
    RevisionDecision(title, content, changes_made, cv, GuardCountOnly, DraftPair, FINAL)

\* loop branch that does not overwrite analysis_draft
submit_revised_analysis_draftKept(title, content, changes_made, cv) ==
    RevisionDecision(title, content, changes_made, cv, GuardAnd, DraftKept, FINAL)

\* else branch that leaves the stage at revision
submit_revised_analysis_noFinal(title, content, changes_made, cv) ==
    RevisionDecision(title, content, changes_made, cv, GuardAnd, DraftPair, REVISION)

\* loop guard that does not read the iteration counters
submit_revised_analysis_needOnly(title, content, changes_made, cv) ==
    RevisionDecision(title, content, changes_made, cv, GuardNeedOnly, DraftPair, FINAL)

\* loop branch that does not increment current_iteration
submit_revised_analysis_noIncrement(title, content, changes_made, cv) ==
    IF ~(IsStr(title) /\ IsStr(content)) THEN Raised(cv)
    ELSE LET revised == RevisedAnalysis(title, content, changes_made)
             c1 == Put(cv, "revised_analysis", revised) IN
         IF GuardAnd(c1)
         THEN LET c3 == Put(c1, "current_stage", REVIEW)
                  c4 == Put(c3, "analysis_draft", DraftPair(revised, c3))
              IN  SwarmResult(c4, NoAgent)
         ELSE LET c2 == Put(c1, "current_stage", FINAL)
              IN  SwarmResult(c2, NoAgent)

\* else branch that also overwrites analysis_draft with the revision
submit_revised_analysis_alwaysDraft(title, content, changes_made, cv) ==
    IF ~(IsStr(title) /\ IsStr(content)) THEN Raised(cv)
    ELSE LET revised == RevisedAnalysis(title, content, changes_made)
             c1 == Put(cv, "revised_analysis", revised)
             c2 == Put(c1, "analysis_draft",
                       [title |-> revised.title, content |-> revised.content]) IN
         IF GuardAnd(c2)
         THEN LET c3 == Put(c2, "current_iteration", c2["current_iteration"] + 1)
                  c4 == Put(c3, "current_stage", REVIEW)
              IN  SwarmResult(c4, NoAgent)
         ELSE LET c3 == Put(c2, "current_stage", FINAL)
              IN  SwarmResult(c3, NoAgent)

submit_revised_analysis(title, content, changes_made, cv) ==
    IF ~(IsStr(title) /\ IsStr(content)) THEN Raised(cv)
    ELSE LET revised == RevisedAnalysis(title, content, changes_made)
             c1 == Put(cv, "revised_analysis", revised) IN
         IF c1["iteration_needed"] /\ c1["current_iteration"] < c1["max_iterations"]
         THEN LET c2 == Put(c1, "current_iteration", c1["current_iteration"] + 1)
                  c3 == Put(c2, "current_stage", REVIEW)
                  c4 == Put(c3, "analysis_draft",
                            [title |-> revised.title, content |-> revised.content])
              IN  SwarmResult(c4, NoAgent)
         ELSE LET c2 == Put(c1, "current_stage", FINAL)
              IN  SwarmResult(c2, NoAgent)

\* FinalAnalysis(title, content).model_dump()
FinalAnalysis(title, content) == [title |-> title.v, content |-> content.v]

\* finalize_analysis that names the revision agent as the next speaker
finalize_analysis_wrongAgent(title, content, cv) ==
    IF ~(IsStr(title) /\ IsStr(content)) THEN Raised(cv)
    ELSE LET c1 == Put(cv, "final_analysis", FinalAnalysis(title, content))
             c2 == Put(c1, "iteration_needed", FALSE)
         IN  SwarmResult(c2, "revision_agent")

finalize_analysis(title, content, cv) ==
    IF ~(IsStr(title) /\ IsStr(content)) THEN Raised(cv)
    ELSE LET c1 == Put(cv, "final_analysis", FinalAnalysis(title, content))
             c2 == Put(c1, "iteration_needed", FALSE)
         IN  SwarmResult(c2, "report_recorder_agent")

\* write_report_to_file that hands the written report back in the context
write_report_to_file_storesReport(writable) ==
    IF ~writable THEN Raised(EmptyDict)
    ELSE SwarmResult([final_report |-> [path |-> "reports/report.md"]], NoAgent)

\* write_report_to_file: the write may fail; the result carries no context
write_report_to_file(writable) ==
    IF ~writable THEN Raised(EmptyDict)
    ELSE SwarmResult(EmptyDict, NoAgent)

----------------------------------------------------------------------------
(* Agents and hand-offs *)

Agents == {"ingestion_agent", "drafting_agent", "review_agent",
           "revision_agent", "finalization_agent", "report_recorder_agent"}
User == "user"

\* hand-offs in which the drafting agent targets the finalization agent
hand_to_draftToFinal(agent, c) ==
    CASE agent = "ingestion_agent" ->
            << [target |-> "drafting_agent",
                condition |-> c["loop_started"] = TRUE /\ c["current_stage"] = ANALYSIS] >>
      [] agent = "drafting_agent" ->
            << [target |-> "finalization_agent", condition |-> c["current_stage"] = REVIEW] >>
      [] agent = "review_agent" ->
            << [target |-> "revision_agent", condition |-> c["current_stage"] = REVISION] >>
      [] agent = "revision_agent" ->
            << [target |-> "finalization_agent", condition |-> c["current_stage"] = FINAL],
               [target |-> "review_agent", condition |-> c["current_stage"] = REVIEW] >>
      [] OTHER -> << >>

\* hand-offs in which the two targets of the revision agent are swapped
hand_to_swapped(agent, c) ==
    CASE agent = "ingestion_agent" ->
            << [target |-> "drafting_agent",
                condition |-> c["loop_started"] = TRUE /\ c["current_stage"] = ANALYSIS] >>
      [] agent = "drafting_agent" ->
            << [target |-> "review_agent", condition |-> c["current_stage"] = REVIEW] >>
      [] agent = "review_agent" ->
            << [target |-> "revision_agent", condition |-> c["current_stage"] = REVISION] >>
      [] agent = "revision_agent" ->
            << [target |-> "review_agent", condition |-> c["current_stage"] = FINAL],
               [target |-> "finalization_agent", condition |-> c["current_stage"] = REVIEW] >>
      [] OTHER -> << >>

\* the OnContextCondition list of each register_hand_off, in declaration
\* order, each condition evaluated on context c
hand_to(agent, c) ==
    CASE agent = "ingestion_agent" ->
            << [target |-> "drafting_agent",
                condition |-> c["loop_started"] = TRUE /\ c["current_stage"] = ANALYSIS] >>
      [] agent = "drafting_agent" ->
            << [target |-> "review_agent", condition |-> c["current_stage"] = REVIEW] >>
      [] agent = "review_agent" ->
            << [target |-> "revision_agent", condition |-> c["current_stage"] = REVISION] >>
      [] agent = "revision_agent" ->
            << [target |-> "finalization_agent", condition |-> c["current_stage"] = FINAL],
               [target |-> "review_agent", condition |-> c["current_stage"] = REVIEW] >>
      [] OTHER -> << >>

\* the AfterWork of each agent; agents without one use the swarm-level
\* after_work of initiate_swarm_chat, REVERT_TO_USER
AfterWork(agent) ==
    CASE agent = "finalization_agent" -> "report_recorder_agent"
      [] agent = "report_recorder_agent" -> User
      [] OTHER -> User

\* indices of the conditions of agent that hold on c
Matching(agent, c) ==
    {i \in DOMAIN hand_to(agent, c) : hand_to(agent, c)[i].condition}

\* first matching condition wins
FirstMatch(agent, c) ==
    LET m == Matching(agent, c)
        i == CHOOSE j \in m : \A k \in m : j <= k
    IN  hand_to(agent, c)[i].target

\* the tool function writing into the shared dict itself: what it wrote
\* before it raised stays
ApplyResult_inPlace(c, res) ==
    IF res.context_variables # EmptyDict
    THEN Update(c, res.context_variables)
    ELSE c

\* the context after a tool call: a SwarmResult with a non-empty context
\* is merged, an exception leaves the context as it was
ApplyResult(c, res) ==
    IF res.ok /\ res.context_variables # EmptyDict
    THEN Update(c, res.context_variables)
    ELSE c

\* who speaks next: the SwarmResult's agent, else the first matching
\* condition, else the after-work.  An exception of the tool function is
\* handed back to the calling agent as the tool's reply: if no condition
\* matches, the agent either calls its tool again or ends its turn, and a
\* turn that ends without a hand-off falls to the after-work
NextSpeakers(agent, res, c) ==
    IF res.ok /\ res.agent # NoAgent THEN {res.agent}
    ELSE IF Matching(agent, c) # {} THEN {FirstMatch(agent, c)}
    ELSE IF res.ok THEN {AfterWork(agent)}
    ELSE {agent, AfterWork(agent)}

----------------------------------------------------------------------------
(* The swarm chat *)

Init ==
    /\ \E m \in 1..MaxIterationsBound : ctx = shared_context(m)
    /\ active = "ingestion_agent"
    /\ rounds = 0
    /\ max_rounds = MaxRounds
    /\ files \in [transcripts : BOOLEAN, objectives : BOOLEAN]
    /\ last = [agent |-> NoAgent, ok |-> FALSE, args |-> EmptyDict]
    /\ loopEdges = 0
    /\ needHist = << >>
    /\ failed = NoAgent
    /\ turns = [a \in Agents |-> IF a = "ingestion_agent" THEN 1 ELSE 0]
    /\ returned = [a \in Agents |-> 0]

\* one turn of the active agent: it calls its tool, the result is applied
\* to the context variables and the next speaker is resolved
Invoke(agent, res, args) ==
    /\ active = agent
    /\ rounds < max_rounds
    /\ rounds' = rounds + 1
    /\ ctx' = ApplyResult(ctx, res)
    /\ active' \in NextSpeakers(agent, res, ctx')
    /\ last' = [agent |-> agent, ok |-> res.ok,
                args |-> IF res.ok THEN args ELSE EmptyDict]
    /\ loopEdges' = IF agent = "revision_agent" /\ active' = "review_agent"
                    THEN loopEdges + 1 ELSE loopEdges
    /\ needHist' = IF agent = "review_agent" /\ res.ok
                   THEN Append(needHist, ctx'["iteration_needed"]) ELSE needHist
    /\ failed' = IF res.ok THEN failed ELSE agent
    /\ turns' = IF active' \in Agents /\ active' # agent
                THEN [turns EXCEPT ![active'] = @ + 1] ELSE turns
    /\ returned' = IF res.ok THEN [returned EXCEPT ![agent] = @ + 1] ELSE returned
    /\ UNCHANGED <<max_rounds, files>>

ReadData ==
    Invoke("ingestion_agent", read_data(ctx, files), EmptyDict)

SubmitAnalysisDraft ==
    \E title \in TitleArgs, content \in ContentArgs :
        Invoke("drafting_agent", submit_analysis_draft(title, content, ctx),
               [title |-> title, content |-> content])

SubmitFeedback ==
    \E items \in ItemsArgs, overall_assessment \in AssessmentArgs,
       priority_issues \in IssuesArgs, iteration_needed \in BOOLEAN :
        Invoke("review_agent",
               submit_feedback(items, overall_assessment, priority_issues,
                               iteration_needed, ctx),
               [items |-> items, iteration_needed |-> iteration_needed])

SubmitRevisedAnalysis ==
    \E title \in TitleArgs, content \in ContentArgs, changes_made \in ChangesArgs :
        Invoke("revision_agent",
               submit_revised_analysis(title, content, changes_made, ctx),
               [title |-> title, content |-> content])

FinalizeAnalysis ==
    \E title \in TitleArgs, content \in ContentArgs :
        Invoke("finalization_agent", finalize_analysis(title, content, ctx),
               [title |-> title, content |-> content])

WriteReportToFile ==
    \E writable \in BOOLEAN :
        Invoke("report_recorder_agent", write_report_to_file(writable),
               [writable |-> writable])

\* max_rounds exhausted: the chat ends and control is back with the caller
MaxRoundsReached ==
    /\ active \in Agents
    /\ rounds >= max_rounds
    /\ active' = User
    /\ UNCHANGED <<ctx, rounds, max_rounds, files, last, loopEdges, needHist, failed,
                   turns, returned>>

Next ==
    \/ ReadData
    \/ SubmitAnalysisDraft
    \/ SubmitFeedback
    \/ SubmitRevisedAnalysis
    \/ FinalizeAnalysis
    \/ WriteReportToFile
    \/ MaxRoundsReached

Spec == Init /\ [][Next]_vars

\* the chat loop keeps giving the turn to the active agent until control
\* is back with the caller: a step that can be taken is taken
FairSpec == Spec /\ WF_vars(Next)

TypeOK ==
    /\ active \in Agents \cup {User}
    /\ rounds \in 0..MaxRounds
    /\ ctx["current_stage"] \in DocumentStage
    /\ ctx["current_iteration"] \in 0..MaxIterationsBound + 1
    /\ loopEdges \in 0..MaxIterationsBound + 1

----------------------------------------------------------------------------
(* Steps the properties speak about *)

\* the step is a tool call of agent a that returned a SwarmResult
Returned(a) == active = a /\ rounds' = rounds + 1 /\ last'.ok

\* the {title, content} pair a returned call was given
SubmittedPair == [title |-> last.args.title.v, content |-> last.args.content.v]

FilesPresent == files.transcripts /\ files.objectives

----------------------------------------------------------------------------
(* Properties *)

\* C1: current_iteration never decreases from one step to the next, and
\* current_iteration <= max_iterations holds in every reachable state.
C1_IterationMonotoneBounded ==
    /\ [][ctx'["current_iteration"] >= ctx["current_iteration"]]_vars
    /\ [](ctx["current_iteration"] <= ctx["max_iterations"])

\* the revision agent is about to decide at the ceiling, after the counter
\* has been incremented, with the review agent asking for more
C1_Witness ==
    /\ active = "revision_agent"
    /\ ctx["iteration_needed"]
    /\ ctx["current_iteration"] = ctx["max_iterations"]
    /\ ctx["current_iteration"] >= 2

\* C2: the loop edge revision -> review fires at most max_iterations - 1
\* times, and a revision that returns while current_iteration =
\* max_iterations hands off to finalization with stage final, whatever
\* iteration_needed is (so with max_iterations = 1 the first one does).
C2_LoopEdgeBound ==
    /\ [](loopEdges <= ctx["max_iterations"] - 1)
    /\ [][(Returned("revision_agent") /\ ctx["current_iteration"] = ctx["max_iterations"])
            => (ctx'["current_stage"] = FINAL /\ active' = "finalization_agent")]_vars

\* scenario A: max_iterations = 1, the review agent asked for another
\* iteration, and the first revision handed off to finalization
C2_Witness ==
    /\ ctx["max_iterations"] = 1
    /\ ctx["iteration_needed"]
    /\ last.agent = "revision_agent" /\ last.ok
    /\ active = "finalization_agent"
    /\ loopEdges = 0

\* C3: after a revision returns, exactly one of its two hand-offs is
\* taken: stage review and the review agent next, or stage final and the
\* finalization agent next; exactly one of its conditions matches.
C3_RevisionExactlyOne ==
    [][Returned("revision_agent") =>
         /\ Cardinality(Matching("revision_agent", ctx')) = 1
         /\ \/ ctx'["current_stage"] = REVIEW /\ active' = "review_agent"
            \/ ctx'["current_stage"] = FINAL /\ active' = "finalization_agent"]_vars

\* a revision has returned and taken the loop edge
C3_Witness ==
    /\ last.agent = "revision_agent" /\ last.ok
    /\ active = "review_agent"
    /\ ctx["current_stage"] = REVIEW

\* C4: when the committed feedback has iteration_needed = false, the next
\* revision that returns sets stage final and hands off to finalization,
\* for every current_iteration and max_iterations.
C4_StopMeansFinal ==
    [][(Returned("revision_agent")
          /\ ctx["feedback_collection"] # EmptyDict
          /\ ctx["iteration_needed"] = FALSE)
         => (ctx'["current_stage"] = FINAL /\ active' = "finalization_agent")]_vars

\* the review agent said stop below the ceiling and the revision went to final
C4_Witness ==
    /\ last.agent = "revision_agent" /\ last.ok
    /\ active = "finalization_agent"
    /\ ctx["iteration_needed"] = FALSE
    /\ ctx["current_iteration"] < ctx["max_iterations"]

\* C5: if the reviews returned iteration_needed = true k times and then
\* false, with k + 1 <= max_iterations, then on entry to finalization
\* exactly k loop edges have fired and current_iteration = k + 1.
C5_CountsAtFinal ==
    (/\ active = "finalization_agent"
     /\ Len(needHist) >= 1
     /\ Len(needHist) <= ctx["max_iterations"]
     /\ \A i \in 1..(Len(needHist) - 1) : needHist[i]
     /\ ~needHist[Len(needHist)])
    => (/\ loopEdges = Len(needHist) - 1
        /\ ctx["current_iteration"] = Len(needHist)
        /\ ctx["current_stage"] = FINAL)

\* scenario B: max_iterations = 3, true, true, false
C5_Witness ==
    /\ ctx["max_iterations"] = 3
    /\ needHist = <<TRUE, TRUE, FALSE>>
    /\ active = "finalization_agent"
    /\ loopEdges = 2
    /\ ctx["current_iteration"] = 3

\* C6: whenever the report recorder is the active agent, final_analysis
\* has been set in the context variables.
C6_RecordingHasFinal ==
    active = "report_recorder_agent" => HasKey(ctx, "final_analysis")

\* C7: when a revision takes the loop edge, the analysis_draft the next
\* review finds is exactly the {title, content} pair that revision was
\* given, without changes_made.
C7_DraftRoundTrip ==
    [][(Returned("revision_agent") /\ active' = "review_agent")
         => ctx'["analysis_draft"] = SubmittedPair']_vars

\* a loop edge was taken with a title other than the first draft's
C7_Witness ==
    /\ last.agent = "revision_agent" /\ last.ok
    /\ active = "review_agent"
    /\ loopEdges >= 1
    /\ last.args.title = Str("t2")
    /\ ctx["analysis_draft"] = [title |-> "t2", content |-> "c1"]
    /\ ctx["revised_analysis"].changes_made.some

NoDraftingYet ==
    /\ ctx["analysis_draft"] = EmptyDict
    /\ active \in {"ingestion_agent", User}
    /\ last.agent \in {NoAgent, "ingestion_agent"}
    /\ ~last.ok
    /\ ctx["loop_started"] = FALSE

\* C9: when a source file is missing, the drafting agent never runs and
\* analysis_draft keeps its empty default in every state, and the chat
\* ends with control back with the caller.
C9_NotFoundStopsBeforeDrafting ==
    /\ [](~FilesPresent => NoDraftingYet)
    /\ (~FilesPresent => <>(active = User))

\* the transcripts were read, the objectives were missing, read_data
\* raised and the chat is over
C9_Witness ==
    /\ files.transcripts /\ ~files.objectives
    /\ failed = "ingestion_agent"
    /\ active = User

\* C10: when a tool invocation has failed, the context returned to the
\* caller has has_error = true and error_message, error_stage set.
C10_ErrorFieldsSet ==
    (active = User /\ failed # NoAgent)
    => (/\ ctx["has_error"] = TRUE
        /\ ctx["error_message"] # ""
        /\ ctx["error_stage"] # "")

\* C11: when no tool call ever raises (max_rounds = 30 covers the
\* 2 * max_iterations + 4 calls), the chat eventually has run the
\* finalization, then the recording, and is back with the caller; it does
\* not stay between review and revision.
C11_Terminates ==
    <>(\/ failed # NoAgent
       \/ /\ active = User
          /\ last.agent = "report_recorder_agent" /\ last.ok
          /\ returned["finalization_agent"] = 1
          /\ returned["report_recorder_agent"] = 1
          /\ HasKey(ctx, "final_analysis")
          /\ rounds <= 2 * ctx["max_iterations"] + 4
          /\ rounds < max_rounds)

\* a run without failures that used all three iterations: ten calls
C11_Witness ==
    /\ failed = NoAgent
    /\ active = User
    /\ last.agent = "report_recorder_agent" /\ last.ok
    /\ ctx["max_iterations"] = 3
    /\ loopEdges = 2
    /\ rounds = 10

\* C12: the ingestion agent speaks first and is given the turn exactly
\* once: no hand-off ever targets it; when read_data returns, the context
\* has loop_started = true, stage analysis and current_iteration = 1, and
\* the drafting agent never has the turn while loop_started is false.
C12_IngestionOnceFirst ==
    /\ [](turns["ingestion_agent"] = 1)
    /\ [](rounds = 0 => active = "ingestion_agent")
    /\ [](returned["ingestion_agent"] <= 1)
    /\ [][active # "ingestion_agent" => active' # "ingestion_agent"]_vars
    /\ [][Returned("ingestion_agent") =>
            /\ ctx'["loop_started"] = TRUE
            /\ ctx'["current_stage"] = ANALYSIS
            /\ ctx'["current_iteration"] = 1
            /\ active' = "drafting_agent"]_vars
    /\ [](active = "drafting_agent" => ctx["loop_started"] = TRUE)

\* read_data has returned and the drafting agent has the turn
C12_Witness ==
    /\ last.agent = "ingestion_agent" /\ last.ok
    /\ active = "drafting_agent"
    /\ returned["ingestion_agent"] = 1
    /\ ctx["loop_started"] = TRUE
    /\ ctx["current_iteration"] = 1

\* C13: the finalization agent gets the turn only from a revision call
\* that returned with stage final; when it has the turn, at least one
\* review and one revision have returned; the drafting agent never hands
\* the turn to the finalization agent or the report recorder.
C13_FinalOnlyAfterRevision ==
    /\ [][(active # "finalization_agent" /\ active' = "finalization_agent") =>
            /\ Returned("revision_agent")
            /\ ctx'["current_stage"] = FINAL]_vars
    /\ [](active = "finalization_agent" =>
            /\ returned["review_agent"] >= 1
            /\ returned["revision_agent"] >= 1)
    /\ [][active = "drafting_agent" =>
            active' \notin {"finalization_agent", "report_recorder_agent"}]_vars

\* the finalization agent has the turn after a single review and revision
C13_Witness ==
    /\ active = "finalization_agent"
    /\ last.agent = "revision_agent" /\ last.ok
    /\ returned["review_agent"] = 1
    /\ returned["revision_agent"] = 1
    /\ returned["drafting_agent"] = 1

\* C14: a committed feedback_collection with iteration_needed = true
\* holds at least one FeedbackItem.
C14_NeedHasItems ==
    (ctx["feedback_collection"] # EmptyDict
       /\ ctx["feedback_collection"].iteration_needed = TRUE)
    => Len(ctx["feedback_collection"].items) >= 1

C16_FinalAnalysisKept ==
    /\ [][HasKey(ctx, "final_analysis") =>
            (HasKey(ctx', "final_analysis")
             /\ ctx'["final_analysis"] = ctx["final_analysis"])]_vars
    /\ [][active = "report_recorder_agent" => ctx' = ctx]_vars

\* the write failed, control is back with the caller, and the context
\* still holds the final analysis
C16_Witness ==
    /\ active = User
    /\ last.agent = "report_recorder_agent" /\ ~last.ok
    /\ returned["finalization_agent"] = 1
    /\ HasKey(ctx, "final_analysis")
    /\ ctx["final_analysis"] = [title |-> "t2", content |-> "c1"]

\* C17: the agent that has the turn agrees with the stage: drafting only
\* at analysis, review only at review, revision only at revision,
\* finalization and recording only at final; the stage is always one of
\* the four DocumentStage values.
C17_StageMatchesAgent ==
    /\ ctx["current_stage"] \in DocumentStage
    /\ (active = "drafting_agent" => ctx["current_stage"] = ANALYSIS)
    /\ (active = "review_agent" => ctx["current_stage"] = REVIEW)
    /\ (active = "revision_agent" => ctx["current_stage"] = REVISION)
    /\ (active \in {"finalization_agent", "report_recorder_agent"}
          => ctx["current_stage"] = FINAL)

\* the revision agent has the turn in a second cycle
C17_Witness ==
    /\ active = "revision_agent"
    /\ ctx["current_stage"] = REVISION
    /\ loopEdges >= 1

\* C18: review and revision alternate, and current_iteration counts the
\* review cycles: while the review or the revision agent has the turn,
\* current_iteration is the number of turns the review agent was given,
\* and when the finalization agent has the turn the returned reviews, the
\* returned revisions and current_iteration are equal.
C18_IterationCountsCycles ==
    /\ (active \in {"review_agent", "revision_agent"}
          => ctx["current_iteration"] = turns["review_agent"])
    /\ (active = "review_agent"
          => returned["review_agent"] = returned["revision_agent"])
    /\ (active = "revision_agent"
          => returned["review_agent"] = returned["revision_agent"] + 1)
    /\ (active = "finalization_agent"
          => /\ returned["review_agent"] = ctx["current_iteration"]
             /\ returned["revision_agent"] = ctx["current_iteration"])
    /\ turns["revision_agent"] \in {turns["review_agent"], turns["review_agent"] - 1}

\* the finalization agent has the turn after two full cycles
C18_Witness ==
    /\ active = "finalization_agent"
    /\ ctx["current_iteration"] = 2
    /\ returned["review_agent"] = 2
    /\ returned["revision_agent"] = 2
    /\ turns["review_agent"] = 2

\* C19: a revision that takes the final branch stores the revision under
\* revised_analysis and leaves analysis_draft and current_iteration as
\* they were, so the finalization agent finds the draft the last review
\* examined; analysis_draft is written only by a returned drafting call
\* and by the revision loop edge.
C19_FinalBranchKeepsDraft ==
    /\ [][(Returned("revision_agent") /\ active' = "finalization_agent") =>
            /\ ctx'["analysis_draft"] = ctx["analysis_draft"]
            /\ ctx'["current_iteration"] = ctx["current_iteration"]
            /\ ctx'["revised_analysis"].title = last'.args.title.v
            /\ ctx'["revised_analysis"].content = last'.args.content.v]_vars
    /\ [][ctx'["analysis_draft"] # ctx["analysis_draft"] =>
            \/ Returned("drafting_agent")
            \/ Returned("revision_agent") /\ active' = "review_agent"]_vars

\* the finalization agent has the turn and the draft is not the revision
C19_Witness ==
    /\ active = "finalization_agent"
    /\ last.agent = "revision_agent" /\ last.ok
    /\ ctx["analysis_draft"].title = "t1"
    /\ ctx["revised_analysis"].title = "t2"

====
